---- MODULE Spec2Model ----
(***************************************************************************)
(* Model of the document question-answering assistant (App component and   *)
(* the answer service askAboutDocuments).                                   *)
(*                                                                         *)
(* The React state of App (documents, messages, isLoading, error) is the   *)
(* state of the model.  State setters are applied to the current state in  *)
(* the order they are called.  The handlers read `documents' and           *)
(* `isLoading' from the closure of the last render, which is the variable  *)
(* `view': an update made inside a user event handler is rendered before   *)
(* the handler's event ends, an update made from a promise continuation is *)
(* rendered by a later step (Render).  Promise continuations that are      *)
(* ready (microtasks) run before the next event is handled.                *)
(*                                                                         *)
(* userInput (the text box) is not part of the model: handleSubmit takes   *)
(* the query as its argument, and the model draws it from Queries.         *)
(*                                                                         *)
(* The extraction of one file is one step (ExtractSettle): the awaits of   *)
(* the PDF and text readers are not told apart, only whether the read      *)
(* fails and whether the content it gives is empty.  The extractions of    *)
(* the files of a batch, and of different batches, end in any order.       *)
(***************************************************************************)
EXTENDS Naturals, Sequences, FiniteSets

VARIABLES
    documents,   \* useState<DocumentFile[]>: sequence of [name, content]
    messages,    \* useState<ChatMessage[]>: sequence of [id, sender, text]
    isLoading,   \* useState(false)
    error,       \* useState<string | null>(null)
    view,        \* what the last render gave the handlers: [documents, isLoading]
    apiKey,      \* whether process.env.API_KEY is set
    requests,    \* one entry per call of askAboutDocuments: its position
    networkCalls,\* number of calls of ai.models.generateContent
    clock,       \* the last value Date.now() returned
    batches,     \* one entry per call of handleFileChange: its promises and newDocs
    uploaded     \* number of files selected so far

vars == <<documents, messages, isLoading, error, view, apiKey, requests,
          networkCalls, clock, batches, uploaded>>

-----------------------------------------------------------------------------
(* Bounds of the model *)

MaxUploaded == 3
MaxSubmits == 2
MaxClock == 1

-----------------------------------------------------------------------------
(* Values *)

null == "null"

NoDocumentsMsg == "Please upload at least one document before asking a question."
SuggestionMsg == "Please upload a document first."
ReadErrorMsg == "There was an error reading one or more files. Please ensure they are valid text or PDF files."
ApiKeyMsg == "API_KEY environment variable not set"
ServiceMsg == "Failed to get a response from the AI. Please check the console for details."

\* The files the user can select: a name and what reading the file gives
\* ("text": non-empty content, "empty": the empty string, "corrupt": the read fails).
Files ==
    { [name |-> "a", kind |-> "text"],
      [name |-> "b", kind |-> "text"],
      [name |-> "a", kind |-> "empty"],
      [name |-> "b", kind |-> "corrupt"] }

Names == {f.name : f \in Files}

\* The questions: sequences of characters.
Queries == { <<>>, <<" ">>, <<"q">> }

AnswerText == <<"r">>

Range(s) == {s[i] : i \in DOMAIN s}

-----------------------------------------------------------------------------
(* Pure functions *)

IsSpace(c) == c = " "

\* String.prototype.trim
RECURSIVE TrimLeft(_)
TrimLeft(s) ==
    IF s = <<>> THEN <<>>
    ELSE IF IsSpace(Head(s)) THEN TrimLeft(Tail(s)) ELSE s

RECURSIVE TrimRight(_)
TrimRight(s) ==
    IF s = <<>> THEN <<>>
    ELSE IF IsSpace(s[Len(s)]) THEN TrimRight(SubSeq(s, 1, Len(s) - 1)) ELSE s

Trim(s) == TrimRight(TrimLeft(s))

\* Number.prototype.toString: the decimal digits, most significant first
RECURSIVE ToString(_)
ToString(n) ==
    IF n < 10 THEN <<n>> ELSE Append(ToString(n \div 10), n % 10)

\* The number a decimal id denotes
RECURSIVE IdValue(_)
IdValue(s) ==
    IF s = <<>> THEN 0 ELSE 10 * IdValue(SubSeq(s, 1, Len(s) - 1)) + s[Len(s)]

\* What the extraction of a file yields when it succeeds
Content(file) == IF file.kind = "text" THEN "x" ELSE ""

\* docs.filter(doc => doc.name !== docName)
RemoveByName(docs, docName) ==
    LET Keep(doc) == doc.name # docName IN SelectSeq(docs, Keep)

\* The batch spreads the documents of the last render instead of prevDocs
AppendDocsToRendered(prevDocs, newDocs) == view.documents \o newDocs

\* [...prevDocs, ...newDocs]
AppendDocs(prevDocs, newDocs) == prevDocs \o newDocs

\* The new message is put first
PrependMessage(prev, m) == <<m>> \o prev

\* [...prev, newMessage]
AppendMessage(prev, m) == Append(prev, m)

-----------------------------------------------------------------------------
(* Promises *)

\* Promise.all(readPromises) fulfils when every promise is resolved
AllResolved(b) == \A i \in DOMAIN batches[b].task : batches[b].task[i] = "resolved"

\* Promise.all(readPromises) rejects when one promise is rejected
SomeRejected(b) == \E i \in DOMAIN batches[b].task : batches[b].task[i] = "rejected"

\* A continuation is ready to run: it runs before the next event is handled.
MicrotaskPending ==
    \/ \E r \in DOMAIN requests : requests[r] = "configError"
    \/ \E b \in DOMAIN batches :
          batches[b].status = "pending" /\ (AllResolved(b) \/ SomeRejected(b))

\* Once a batch's Promise.all is settled and every one of its promises too,
\* nothing refers to its files, promises and newDocs any more: the entry keeps
\* only how the batch ended and how many documents it appended.
Collect(batch) ==
    IF batch.status # "pending" /\ \A i \in DOMAIN batch.task : batch.task[i] # "pending"
    THEN [files |-> <<>>, task |-> <<>>, newDocs |-> <<>>, status |-> batch.status,
          appended |-> batch.appended]
    ELSE batch

Rendered(docs, loading) == [documents |-> docs, isLoading |-> loading]

\* The promise body resolves also when the read fails
TaskAlwaysResolves(file) == "resolved"

\* handleFileChange, the promise body: try { ... resolve() } catch (err) { reject(err) }
TaskOutcome(file) == IF file.kind = "corrupt" THEN "rejected" ELSE "resolved"

\* The guard does not look at isLoading
SubmitBlockedIfBlank(query) == Trim(query) = <<>>

\* handleSubmit: if (!query.trim() || isLoading) return;
SubmitBlocked(query) == Trim(query) = <<>> \/ view.isLoading

\* The test for an empty document list is left out
NoDocumentsUnchecked == FALSE

\* handleSubmit: if (documents.length === 0)
NoDocuments == Len(view.documents) = 0

\* The test for the credential is left out
KeyMissingUnchecked == FALSE

\* askAboutDocuments: if (!process.env.API_KEY)
KeyMissing == ~apiKey

\* The finally block does not clear isLoading
FinallyStillLoading == isLoading

\* handleSubmit: finally { setIsLoading(false); ... }
Finally == FALSE

\* The requests that are not settled yet
InFlight == {r \in DOMAIN requests : requests[r] # "settled"}

\* The documents of a list of files, in the order of the list
RECURSIVE InSelectionOrder(_)
InSelectionOrder(files) ==
    IF files = <<>> THEN <<>>
    ELSE IF Content(Head(files)) # ""
         THEN <<[name |-> Head(files).name, content |-> Content(Head(files))]>>
              \o InSelectionOrder(Tail(files))
         ELSE InSelectionOrder(Tail(files))

FileLists == UNION { [1..n -> Files] : n \in 1..MaxUploaded }

-----------------------------------------------------------------------------
Init ==
    /\ documents = <<>>
    /\ messages = <<>>
    /\ isLoading = FALSE
    /\ error = null
    /\ view = Rendered(<<>>, FALSE)
    /\ apiKey \in BOOLEAN
    /\ requests = <<>>
    /\ networkCalls = 0
    /\ clock = 0
    /\ batches = <<>>
    /\ uploaded = 0

-----------------------------------------------------------------------------
(* Upload *)

\* handleFileChange(event): one promise per selected file, joined by Promise.all
HandleFileChange(files) ==
    /\ ~MicrotaskPending
    /\ uploaded + Len(files) <= MaxUploaded
    /\ uploaded' = uploaded + Len(files)
    /\ batches' = Append(batches,
                         [files |-> files,
                          task |-> [i \in DOMAIN files |-> "pending"],
                          newDocs |-> <<>>,
                          status |-> "pending",
                          appended |-> 0])
    /\ UNCHANGED <<documents, messages, isLoading, error, view, apiKey, requests,
                   networkCalls, clock>>

\* The extraction of file i of batch b ends: the content is pushed to the
\* batch's newDocs if it is not empty and the promise is resolved, or the
\* promise is rejected.
ExtractSettle(b, i) ==
    /\ ~MicrotaskPending
    /\ batches[b].task[i] = "pending"
    /\ LET file == batches[b].files[i]
           outcome == TaskOutcome(file)
           pushed == IF outcome = "resolved" /\ Content(file) # ""
                     THEN Append(batches[b].newDocs,
                                 [name |-> file.name, content |-> Content(file)])
                     ELSE batches[b].newDocs
       IN batches' = [batches EXCEPT ![b] =
                         Collect([@ EXCEPT !.task[i] = outcome, !.newDocs = pushed])]
    /\ UNCHANGED <<documents, messages, isLoading, error, view, apiKey, requests,
                   networkCalls, clock, uploaded>>

\* Promise.all(readPromises).then(() => setDocuments(prevDocs => [...prevDocs, ...newDocs]))
BatchThen(b) ==
    /\ batches[b].status = "pending"
    /\ AllResolved(b)
    /\ documents' = AppendDocs(documents, batches[b].newDocs)
    /\ batches' = [batches EXCEPT ![b] =
                      Collect([@ EXCEPT !.status = "fulfilled",
                                        !.appended = Len(batches[b].newDocs)])]
    /\ UNCHANGED <<messages, isLoading, error, view, apiKey, requests,
                   networkCalls, clock, uploaded>>

\* .catch(err => setError("There was an error reading one or more files. ..."))
BatchCatch(b) ==
    /\ batches[b].status = "pending"
    /\ SomeRejected(b)
    /\ error' = ReadErrorMsg
    /\ batches' = [batches EXCEPT ![b] = Collect([@ EXCEPT !.status = "rejected"])]
    /\ UNCHANGED <<documents, messages, isLoading, view, apiKey, requests,
                   networkCalls, clock, uploaded>>

\* removeDocument(docName), called from the button rendered for a document of
\* the last render: setDocuments(docs => docs.filter(...)), rendered at the end
\* of the click event
RemoveDocument(docName) ==
    /\ ~MicrotaskPending
    /\ documents' = RemoveByName(documents, docName)
    /\ view' = Rendered(documents', isLoading)
    /\ UNCHANGED <<messages, isLoading, error, apiKey, requests, networkCalls,
                   clock, batches, uploaded>>

-----------------------------------------------------------------------------
(* Chat *)

\* handleSubmit(query) up to its await, with the part of askAboutDocuments
\* that runs before its own await; now is what Date.now() returns (the two
\* early returns do not read it)
HandleSubmit(query, now) ==
    /\ ~MicrotaskPending
    /\ IF SubmitBlocked(query)
       THEN now = clock /\ UNCHANGED vars
       ELSE IF NoDocuments
       THEN /\ now = clock
            /\ error' = NoDocumentsMsg
            /\ view' = Rendered(documents, isLoading)
            /\ UNCHANGED <<documents, messages, isLoading, apiKey, requests,
                           networkCalls, clock, batches, uploaded>>
       ELSE /\ Len(requests) < MaxSubmits
            /\ error' = null
            /\ messages' = AppendMessage(messages,
                              [id |-> ToString(now), sender |-> "user", text |-> query])
            /\ clock' = now
            /\ isLoading' = TRUE
            /\ IF KeyMissing
               THEN /\ requests' = Append(requests, "configError")
                    /\ networkCalls' = networkCalls
               ELSE /\ requests' = Append(requests, "inflight")
                    /\ networkCalls' = networkCalls + 1
            /\ view' = Rendered(documents, TRUE)
            /\ UNCHANGED <<documents, apiKey, batches, uploaded>>

\* askAboutDocuments threw before any await: catch { setError(e.message) } finally
ConfigFail(r) ==
    /\ requests[r] = "configError"
    /\ error' = ApiKeyMsg
    /\ isLoading' = Finally
    /\ requests' = [requests EXCEPT ![r] = "settled"]
    /\ UNCHANGED <<documents, messages, view, apiKey, networkCalls, clock, batches, uploaded>>

\* generateContent returned: the assistant message is appended, then finally;
\* now is what Date.now() returns
AnswerArrives(r, now) ==
    /\ ~MicrotaskPending
    /\ requests[r] = "inflight"
    /\ messages' = AppendMessage(messages,
                      [id |-> ToString(now + 1), sender |-> "ai", text |-> AnswerText])
    /\ clock' = now
    /\ isLoading' = Finally
    /\ requests' = [requests EXCEPT ![r] = "settled"]
    /\ UNCHANGED <<documents, error, view, apiKey, networkCalls, batches, uploaded>>

\* generateContent failed: askAboutDocuments rethrows one Error, catch, finally
ServiceFails(r) ==
    /\ ~MicrotaskPending
    /\ requests[r] = "inflight"
    /\ error' = ServiceMsg
    /\ isLoading' = Finally
    /\ requests' = [requests EXCEPT ![r] = "settled"]
    /\ UNCHANGED <<documents, messages, view, apiKey, networkCalls, clock, batches, uploaded>>

\* handleSuggestionClick(suggestion)
HandleSuggestionClick ==
    /\ ~MicrotaskPending
    /\ IF Len(view.documents) = 0
       THEN error' = SuggestionMsg
       ELSE error' = error
    /\ view' = Rendered(documents, isLoading)
    /\ UNCHANGED <<documents, messages, isLoading, apiKey, requests, networkCalls,
                   clock, batches, uploaded>>

\* The component renders the updates made from promise continuations
Render ==
    /\ ~MicrotaskPending
    /\ view # Rendered(documents, isLoading)
    /\ view' = Rendered(documents, isLoading)
    /\ UNCHANGED <<documents, messages, isLoading, error, apiKey, requests,
                   networkCalls, clock, batches, uploaded>>

\* Date.now() does not go back
Clock == clock..MaxClock

Next ==
    \/ \E files \in FileLists : HandleFileChange(files)
    \/ \E b \in DOMAIN batches : \E i \in DOMAIN batches[b].task : ExtractSettle(b, i)
    \/ \E b \in DOMAIN batches : BatchThen(b)
    \/ \E b \in DOMAIN batches : BatchCatch(b)
    \/ \E d \in Range(view.documents) : RemoveDocument(d.name)
    \/ \E query \in Queries : \E now \in Clock : HandleSubmit(query, now)
    \/ \E r \in DOMAIN requests : ConfigFail(r)
    \/ \E r \in DOMAIN requests : \E now \in Clock : AnswerArrives(r, now)
    \/ \E r \in DOMAIN requests : ServiceFails(r)
    \/ HandleSuggestionClick
    \/ Render

Spec == Init /\ [][Next]_vars

\* Every continuation that is ready runs, every request returns or fails, and
\* the component renders its pending updates.
Fairness ==
    /\ WF_vars(\E b \in DOMAIN batches : BatchThen(b))
    /\ WF_vars(\E b \in DOMAIN batches : BatchCatch(b))
    /\ WF_vars(\E r \in DOMAIN requests : ConfigFail(r))
    /\ WF_vars(\E r \in DOMAIN requests :
                 (\E now \in Clock : AnswerArrives(r, now)) \/ ServiceFails(r))
    /\ WF_vars(Render)

FairSpec == Spec /\ Fairness

-----------------------------------------------------------------------------
(* Claims *)

\* C1: at most one question is in flight at any time, and while one is pending
\* no step makes a call to the answer service, starts a request or appends a
\* user message: a submission made while pending is a no-op.
C1_OneInFlight ==
    /\ [](Cardinality(InFlight) <= 1)
    /\ [][isLoading =>
            /\ networkCalls' = networkCalls
            /\ Len(requests') = Len(requests)
            /\ \/ messages' = messages
               \/ messages'[Len(messages')].sender = "ai"]_vars

\* Two submissions were accepted and only the second is still in flight
C1_Witness ==
    /\ Len(requests) = 2
    /\ InFlight = {2}
    /\ networkCalls = 2
    /\ isLoading

\* C2: with an empty DocumentSet and nothing pending, no step appends a
\* message, calls the answer service or sets pending, and a submission of a
\* non-blank question sets the error to the instructive message.
C2_EmptySetRejected ==
    [][(documents = <<>> /\ ~view.isLoading) =>
         /\ messages' = messages
         /\ networkCalls' = networkCalls
         /\ requests' = requests
         /\ ~isLoading'
         /\ \A query \in Queries :
               (Trim(query) # <<>> /\ HandleSubmit(query, clock)) => error' = NoDocumentsMsg]_vars

\* A question was rejected for want of documents
C2_Witness ==
    /\ error = NoDocumentsMsg
    /\ documents = <<>>
    /\ messages = <<>>
    /\ networkCalls = 0
    /\ ~isLoading

\* C3: a batch with a file whose extraction fails is never fulfilled; when it
\* is rejected the DocumentSet is unchanged and the error is set to the
\* read-error message; and the DocumentSet grows only when a batch without
\* such a file is fulfilled.
C3_BatchAllOrNothing ==
    [][/\ \A b \in DOMAIN batches :
            (/\ batches[b].status = "pending"
             /\ \E i \in DOMAIN batches[b].files : batches[b].files[i].kind = "corrupt")
            => /\ batches'[b].status # "fulfilled"
               /\ batches'[b].status = "rejected" =>
                     (documents' = documents /\ error' = ReadErrorMsg)
       /\ \A b \in DOMAIN batches :
            batches[b].status = "rejected" =>
               (batches'[b].status = "rejected" /\ batches'[b].appended = 0)
       /\ Len(documents') > Len(documents) =>
            \E b \in DOMAIN batches :
               /\ batches[b].status = "pending"
               /\ batches'[b].status = "fulfilled"
               /\ \A i \in DOMAIN batches[b].files : batches[b].files[i].kind # "corrupt"]_vars

\* A batch was rejected after an earlier batch had added documents, which are
\* still held
C3_Witness ==
    /\ Len(batches) = 2
    /\ batches[1].status = "fulfilled"
    /\ batches[2].status = "rejected"
    /\ batches[2].appended = 0
    /\ Len(documents) = batches[1].appended
    /\ documents # <<>>
    /\ error = ReadErrorMsg

\* C4: without a credential no call is ever made to the remote endpoint and
\* no assistant message is appended; the request that was started fails at
\* once: its next step sets the error to the credential message and clears
\* pending, leaving the transcript as it is.
C4_MissingCredential ==
    /\ [](~apiKey =>
            /\ networkCalls = 0
            /\ \A i \in DOMAIN messages : messages[i].sender # "ai")
    /\ [][\A r \in DOMAIN requests :
            requests[r] = "configError" =>
               /\ requests'[r] = "settled"
               /\ error' = ApiKeyMsg
               /\ ~isLoading'
               /\ messages' = messages
               /\ networkCalls' = networkCalls]_vars

\* A question was asked without a credential and has failed
C4_Witness ==
    /\ ~apiKey
    /\ Len(requests) = 1
    /\ requests[1] = "settled"
    /\ error = ApiKeyMsg
    /\ ~isLoading
    /\ Len(messages) = 1
    /\ messages[1].sender = "user"
    /\ networkCalls = 0

\* C5: every step leaves the transcript unchanged or appends one message at
\* its end; a user message is appended exactly when a request starts; an
\* assistant message is appended only when a request in flight is settled,
\* right after a user message; a request that is settled either appends
\* the assistant message or sets the error, never both.
C5_TranscriptAppendOnly ==
    [][/\ \/ messages' = messages
          \/ /\ Len(messages') = Len(messages) + 1
             /\ SubSeq(messages', 1, Len(messages)) = messages
             /\ LET m == messages'[Len(messages')] IN
                   /\ m.sender = "user" => Len(requests') = Len(requests) + 1
                   /\ m.sender = "ai" =>
                         /\ messages # <<>>
                         /\ messages[Len(messages)].sender = "user"
                         /\ \E r \in DOMAIN requests :
                               requests[r] = "inflight" /\ requests'[r] = "settled"
       /\ Len(requests') > Len(requests) =>
             /\ Len(messages') = Len(messages) + 1
             /\ messages'[Len(messages')].sender = "user"
       /\ \A r \in DOMAIN requests :
             (requests[r] # "settled" /\ requests'[r] = "settled") =>
                \/ /\ error' = error
                   /\ Len(messages') = Len(messages) + 1
                   /\ messages'[Len(messages')].sender = "ai"
                \/ /\ error' \in {ServiceMsg, ApiKeyMsg}
                   /\ messages' = messages]_vars

\* A request failed and the next one succeeded
C5_Witness ==
    /\ Len(messages) = 3
    /\ messages[1].sender = "user"
    /\ messages[2].sender = "user"
    /\ messages[3].sender = "ai"
    /\ InFlight = {}

\* C6: the names of the documents held are pairwise distinct.
C6_NamesDistinct ==
    \A i, j \in DOMAIN documents : i # j => documents[i].name # documents[j].name

\* C7: a batch's documents are appended in one step, when the batch is
\* fulfilled, in the order the files were selected in.
C7_SelectionOrder ==
    [][\A b \in DOMAIN batches :
          (batches[b].status = "pending" /\ batches'[b].status = "fulfilled") =>
             documents' = documents \o InSelectionOrder(batches[b].files)]_vars

\* The number of documents of a list that bear a name
CountName(docs, n) == Cardinality({i \in DOMAIN docs : docs[i].name = n})

\* C8: no DocumentSet mutation is lost.  A batch that is fulfilled appends its
\* documents, one for every file of the batch that has content, to the
\* documents held at that moment; and the DocumentSet changes otherwise only
\* by a removal, which takes the documents of one name out of the documents
\* held at that moment and keeps the others in their order.
C8_NoLostUpdate ==
    [][/\ \A b \in DOMAIN batches :
            (batches[b].status = "pending" /\ batches'[b].status = "fulfilled") =>
               /\ documents' = documents \o batches[b].newDocs
               /\ \A n \in Names :
                     CountName(batches[b].newDocs, n)
                        = CountName(InSelectionOrder(batches[b].files), n)
       /\ documents' # documents =>
            \/ \E b \in DOMAIN batches :
                  batches[b].status = "pending" /\ batches'[b].status = "fulfilled"
            \/ \E d \in Range(documents) :
                  LET Keep(doc) == doc.name # d.name
                  IN documents' = SelectSeq(documents, Keep)]_vars

\* The second batch was fulfilled while the first was still in progress, and
\* a document it appended has been removed since; the first batch has
\* extracted a document that it has still to append
C8_Witness ==
    /\ Len(batches) = 2
    /\ batches[1].status = "pending"
    /\ batches[1].newDocs # <<>>
    /\ batches[2].status = "fulfilled"
    /\ batches[2].appended > Len(documents)

\* C9: pending is true exactly while a request is not settled, and every
\* request that started is settled: pending becomes false again and the
\* component renders it, so that the next submission is not blocked.
C9_PendingClears ==
    /\ [](isLoading <=> InFlight # {})
    /\ isLoading ~> (~isLoading /\ ~view.isLoading)

\* A second question was accepted after the first was settled, and it failed;
\* nothing is pending any more
C9_Witness ==
    /\ Len(requests) = 2
    /\ InFlight = {}
    /\ error \in {ServiceMsg, ApiKeyMsg}
    /\ ~isLoading
    /\ ~view.isLoading

\* C10: the ids of the transcript are strictly increasing in the order the
\* messages were created in (and so pairwise distinct).
C10_IdsIncreasing ==
    \A i, j \in DOMAIN messages :
        i < j => IdValue(messages[i].id) < IdValue(messages[j].id)

====
